---- MODULE Spec2Model ----
(***************************************************************************)
(* A model of the swish client (src/src/client.rs, src/src/error.rs): the  *)
(* four operations of SwishClient, the request they put on the wire, the   *)
(* classification of the provider's response in                            *)
(* perform_swish_api_request and the continuation of each operation.       *)
(*                                                                         *)
(* Texts (Rust String / &str) are sequences of chunks (strings); header    *)
(* values are sequences of bytes (integers), as hyper's HeaderValue.       *)
(* A panic (unwrap / expect on an Err) ends a call in phase "panicked"     *)
(* with no result.                                                         *)
(*                                                                         *)
(* Spec is one call over every input of the model; SpecConcurrent is two   *)
(* calls on one client, over a few inputs, their steps in every order.     *)
(***************************************************************************)
EXTENDS Integers, Sequences, FiniteSets, TLC

VARIABLES
    config,     \* the SwishClient's fields (client.rs 29-36)
    fs,         \* the file system: path -> file contents or missing
    calls,      \* per call: phase, operation, arguments, transport, response,
                \* result, log
    wire        \* per call: the HTTP request in flight, if any

vars == <<config, fs, calls, wire>>

----------------------------------------------------------------------------
(* Bounds of the model.                                                    *)

\* longest JSON array in a response body
MaxElems == 2
\* longest Location header value, in bytes
MaxLocLen == 3
\* longest paymentrequesttoken header value, in bytes
MaxTokLen == 1

CallIds == {"c1"}
\* the calls of the concurrent specification
Callers == {"c1", "c2"}

----------------------------------------------------------------------------
(* Option and Result.                                                      *)

None == [some |-> FALSE]
Some(v) == [some |-> TRUE, val |-> v]
OkV(v) == [ok |-> TRUE, val |-> v]
ErrV(e) == [ok |-> FALSE, err |-> e]
Nil == [nil |-> TRUE]

\* all sequences over S of length at most n
SeqUpTo(S, n) == UNION {[1..k -> S] : k \in 0..n}

----------------------------------------------------------------------------
(* error.rs                                                                *)

Swish(e) == [variant |-> "Swish", error |-> e]
\* a faulty variant: an empty collection becomes a single error
ErrorCollection_single_when_empty(es) ==
    IF es = <<>>
    THEN [variant |-> "Swish",
          error |-> [http_status |-> 200, code |-> [some |-> FALSE],
                     message |-> <<>>,
                     additional_information |-> [some |-> FALSE]]]
    ELSE [variant |-> "ErrorCollection", errors |-> es]
ErrorCollection(es) == [variant |-> "ErrorCollection", errors |-> es]
Json(msg) == [variant |-> "Json", msg |-> msg]
Http(msg) == [variant |-> "Http", msg |-> msg]
Uri(msg) == [variant |-> "Uri", msg |-> msg]
Parse(msg) == [variant |-> "Parse", msg |-> msg]

ErrorCode ==
    {"FF08", "RP03", "BE18", "RP01", "PA02", "AM06", "AM02", "AM03", "RP02",
     "RP06", "ACMT03", "ACMT01", "ACMT07", "PA01", "RF02"}

\* hyper::StatusCode::default(), the value of a skip_deserializing http_status
StatusDefault == 200
NOT_FOUND == 404

RequestError(status, code, message, info) ==
    [http_status |-> status, code |-> code, message |-> message,
     additional_information |-> info]

----------------------------------------------------------------------------
(* JSON values (serde_json::Value) and the texts they are parsed from.     *)

JNull == [t |-> "null"]
JBool(b) == [t |-> "bool", v |-> b]
JNum(n) == [t |-> "number", v |-> n]
JStr(s) == [t |-> "string", v |-> s]
JObj(f) == [t |-> "object", fields |-> f]
JArr(items) == [t |-> "array", items |-> items]

\* Literals a body may hold, each one chunk of text.
TokFull == "{errorCode:RP01,errorMessage:x,additionalInformation:i}"
TokMsgOnly == "{errorCode:null,errorMessage:y}"
TokBogus == "{bogus:true}"
TokBadCode == "{errorCode:ZZ99,errorMessage:z}"
TokPayment == "{id:ABC123,amount:100,dateCreated:d,currency:SEK}"
TokNumber == "42"

ErrorTokens == {TokFull, TokMsgOnly, TokBogus, TokBadCode, TokNumber}
\* a payment without dateCreated and currency, a paid payment, a payment
\* whose status is no variant of Status
TokPartial == "{id:ABC123,amount:100}"
TokPaid == "{id:ABC123,amount:100,dateCreated:d,currency:SEK,status:PAID}"
TokBadStatus == "{id:ABC123,amount:100,dateCreated:d,currency:SEK,status:DONE}"

PaymentTokens == {TokPayment, TokPartial, TokPaid, TokBadStatus}
ValueTokens == ErrorTokens \cup PaymentTokens

\* The value a literal denotes.
ValueOf(tok) ==
    CASE tok = TokFull ->
           JObj([errorCode |-> JStr("RP01"), errorMessage |-> JStr("x"),
                 additionalInformation |-> JStr("i")])
      [] tok = TokMsgOnly ->
           JObj([errorCode |-> JNull, errorMessage |-> JStr("y")])
      [] tok = TokBogus -> JObj([bogus |-> JBool(TRUE)])
      [] tok = TokBadCode ->
           JObj([errorCode |-> JStr("ZZ99"), errorMessage |-> JStr("z")])
      [] tok = TokPayment ->
           JObj([id |-> JStr("ABC123"), amount |-> JNum(100),
                 dateCreated |-> JStr("d"), currency |-> JStr("SEK")])
      [] tok = TokPartial -> JObj([id |-> JStr("ABC123"), amount |-> JNum(100)])
      [] tok = TokPaid ->
           JObj([id |-> JStr("ABC123"), amount |-> JNum(100),
                 dateCreated |-> JStr("d"), currency |-> JStr("SEK"),
                 status |-> JStr("PAID")])
      [] tok = TokBadStatus ->
           JObj([id |-> JStr("ABC123"), amount |-> JNum(100),
                 dateCreated |-> JStr("d"), currency |-> JStr("SEK"),
                 status |-> JStr("DONE")])
      [] tok = TokNumber -> JNum(42)

\* A chunk that is not valid UTF-8.
BinaryChunk == "<0xFF>"

IsUtf8(text) == \A i \in 1..Len(text) : text[i] # BinaryChunk

RECURSIVE ParseElems(_, _)
\* The elements of an array after "[" or ",": value, then "," or "]".
ParseElems(rest, acc) ==
    IF rest = <<>> THEN ErrV("EOF while parsing a list")
    ELSE IF Head(rest) \notin ValueTokens THEN ErrV("expected value")
    ELSE LET items == Append(acc, ValueOf(Head(rest)))
             after == Tail(rest)
         IN  IF after = <<>> THEN ErrV("EOF while parsing a list")
             ELSE IF Head(after) = "]"
                  THEN IF Len(after) = 1 THEN OkV(JArr(items))
                       ELSE ErrV("trailing characters")
             ELSE IF Head(after) = "," THEN ParseElems(Tail(after), items)
             ELSE ErrV("expected comma or closing bracket")

\* serde_json::from_str::<serde_json::Value>
ParseJson(text) ==
    IF text = <<>> THEN ErrV("EOF while parsing a value")
    ELSE IF Head(text) \in ValueTokens
         THEN IF Len(text) = 1 THEN OkV(ValueOf(Head(text)))
              ELSE ErrV("trailing characters")
    ELSE IF Head(text) = "["
         THEN IF Len(text) >= 2 /\ text[2] = "]"
              THEN IF Len(text) = 2 THEN OkV(JArr(<<>>))
                   ELSE ErrV("trailing characters")
              ELSE ParseElems(Tail(text), <<>>)
    ELSE ErrV("expected value")

\* An Option<String> field of a derived Deserialize: absent or null is None.
OptStringField(f, key) ==
    IF key \notin DOMAIN f \/ f[key].t = "null" THEN OkV(None)
    ELSE IF f[key].t = "string" THEN OkV(Some(f[key].v))
    ELSE ErrV("invalid type")

\* serde_json::from_value::<RequestError>: errorMessage is required,
\* errorCode must be absent, null or a variant of ErrorCode, http_status is
\* never read and takes its default.
DecodeRequestError(j) ==
    IF j.t # "object" THEN ErrV("invalid type")
    ELSE LET f == j.fields
             code == OptStringField(f, "errorCode")
             info == OptStringField(f, "additionalInformation")
         IN  IF "errorMessage" \notin DOMAIN f THEN ErrV("missing field")
             ELSE IF f["errorMessage"].t # "string" THEN ErrV("invalid type")
             ELSE IF ~code.ok THEN code
             ELSE IF code.val.some /\ code.val.val \notin ErrorCode
                  THEN ErrV("unknown variant")
             ELSE IF ~info.ok THEN info
             ELSE OkV(RequestError(StatusDefault, code.val,
                                   <<f["errorMessage"].v>>, info.val))

----------------------------------------------------------------------------
(* Response headers (hyper::HeaderMap): header name -> value bytes.        *)

LOCATION == "location"
PAYMENT_REQUEST_TOKEN == "paymentrequesttoken"

Slash == 47
LocBytes == {97, Slash, 233}
TokBytes == {116, 233}

\* http::HeaderValue::to_str: every byte is visible ASCII or a tab
IsVisibleAscii(b) == (b >= 32 /\ b < 127) \/ b = 9
ToStr(value) ==
    IF \A i \in 1..Len(value) : IsVisibleAscii(value[i])
    THEN OkV(value) ELSE ErrV("ToStrError")

\* a faulty variant: the header's bytes are taken as they are
get_header_as_string_lossy(headers, header) ==
    IF header \in DOMAIN headers THEN Some(headers[header]) ELSE None

get_header_as_string(headers, header) ==
    IF header \in DOMAIN headers /\ ToStr(headers[header]).ok
    THEN Some(ToStr(headers[header]).val)
    ELSE None

RECURSIVE SplitAcc(_, _, _)
SplitAcc(s, cur, acc) ==
    IF s = <<>> THEN Append(acc, cur)
    ELSE IF Head(s) = Slash THEN SplitAcc(Tail(s), <<>>, Append(acc, cur))
    ELSE SplitAcc(Tail(s), Append(cur, Head(s)), acc)

\* str::split('/'): the segments between the separators, at least one
Split(s) == SplitAcc(s, <<>>, <<>>)

\* a faulty variant: the first segment instead of the last
get_payment_id_from_location_first(location) ==
    Some(Head(Split(location)))

get_payment_id_from_location(location) ==
    LET payment_id == Split(location)
    IN  IF payment_id = <<>> THEN None
        ELSE Some(payment_id[Len(payment_id)])

----------------------------------------------------------------------------
(* perform_swish_api_request: the classification of a completed exchange.  *)

\* a faulty variant: only 200 OK counts as success
IsSuccess_only_ok(status) == status = 200

\* StatusCode::is_success
IsSuccess(status) == status >= 200 /\ status < 300

RECURSIVE StampedErrors_default_status(_, _)
\* a faulty variant: the decoded errors keep the default http_status
StampedErrors_default_status(items, status) ==
    IF items = <<>> THEN <<>>
    ELSE LET d == DecodeRequestError(Head(items))
             rest == StampedErrors_default_status(Tail(items), status)
         IN  IF d.ok THEN <<Swish(d.val)>> \o rest ELSE rest

RECURSIVE StampedErrors(_, _)
\* the decodable elements, in order, each stamped with the status
StampedErrors(items, status) ==
    IF items = <<>> THEN <<>>
    ELSE LET d == DecodeRequestError(Head(items))
             rest == StampedErrors(Tail(items), status)
         IN  IF d.ok
             THEN <<Swish([d.val EXCEPT !.http_status = status])>> \o rest
             ELSE rest

\* json.as_array() and the errors of its elements; a value that is no
\* array has none
ErrorsOfBody(json, status) ==
    IF json.t = "array" THEN StampedErrors(json.items, status) ELSE <<>>

\* a faulty variant: the body of a 404 is parsed like that of any other error
NotFoundError_parsed(body) ==
    IF ParseJson(body).ok
    THEN ErrorCollection(ErrorsOfBody(ParseJson(body).val, NOT_FOUND))
    ELSE Swish(RequestError(NOT_FOUND, None, body, None))

\* the error of a 404: the raw body is the message
NotFoundError(body) == Swish(RequestError(NOT_FOUND, None, body, None))

\* a faulty variant: the raw body is the message
OpaqueError_raw_body(status, body, err) ==
    Swish(RequestError(status, None, body, None))

\* the error of a body that is not JSON: the parse failure is the message
OpaqueError(status, body, err) ==
    Swish(RequestError(status, None, <<err>>, None))

Classify(status, headers, body) ==
    IF status = NOT_FOUND THEN ErrV(NotFoundError(body))
    ELSE IF ~IsSuccess(status)
    THEN LET parsed == ParseJson(body)
         IN  IF parsed.ok
             THEN ErrV(ErrorCollection(ErrorsOfBody(parsed.val, status)))
             ELSE ErrV(OpaqueError(status, body, parsed.err))
    ELSE OkV([body |-> body, headers |-> headers])

----------------------------------------------------------------------------
(* The continuations of create_payment and create_refund.                  *)

\* json!(payment) for payment : Option<CreatedPayment>
CreatedPaymentToValue(payment) ==
    IF ~payment.some THEN JNull
    ELSE JObj([id |-> JStr(payment.val.id),
               location |-> JStr(payment.val.location),
               request_token |->
                   IF payment.val.request_token.some
                   THEN JStr(payment.val.request_token.val) ELSE JNull])

\* serde_json::from_value::<CreatedPayment>
CreatedPaymentFromValue(j) ==
    IF j.t # "object"
    THEN ErrV(Json("invalid type: null, expected struct CreatedPayment"))
    ELSE LET f == j.fields
             token == OptStringField(f, "request_token")
         IN  IF ~({"id", "location"} \subseteq DOMAIN f)
             THEN ErrV(Json("missing field"))
             ELSE IF f["id"].t # "string" \/ f["location"].t # "string"
                     \/ ~token.ok
             THEN ErrV(Json("invalid type"))
             ELSE OkV([id |-> f["id"].v, location |-> f["location"].v,
                       request_token |-> token.val])

\* json!(refund) for refund : Option<CreatedRefund>
CreatedRefundToValue(refund) ==
    IF ~refund.some THEN JNull
    ELSE JObj([id |-> JStr(refund.val.id),
               location |-> JStr(refund.val.location)])

\* serde_json::from_value::<CreatedRefund>
CreatedRefundFromValue(j) ==
    IF j.t # "object"
    THEN ErrV(Json("invalid type: null, expected struct CreatedRefund"))
    ELSE LET f == j.fields
         IN  IF ~({"id", "location"} \subseteq DOMAIN f)
             THEN ErrV(Json("missing field"))
             ELSE IF f["id"].t # "string" \/ f["location"].t # "string"
             THEN ErrV(Json("invalid type"))
             ELSE OkV([id |-> f["id"].v, location |-> f["location"].v])

\* the closure of create_payment over the headers of a successful response
CreatedPaymentOf(headers) ==
    LET location == get_header_as_string(headers, LOCATION)
        request_token == get_header_as_string(headers, PAYMENT_REQUEST_TOKEN)
        payment_id == IF location.some
                      THEN get_payment_id_from_location(location.val)
                      ELSE None
        payment == IF location.some /\ payment_id.some
                   THEN Some([id |-> payment_id.val,
                              request_token |-> request_token,
                              location |-> location.val])
                   ELSE None
    IN  CreatedPaymentFromValue(CreatedPaymentToValue(payment))

\* the closure of create_refund over the headers of a successful response
CreatedRefundOf(headers) ==
    LET location == get_header_as_string(headers, LOCATION)
        refund_id == IF location.some
                     THEN get_payment_id_from_location(location.val)
                     ELSE None
        refund == IF location.some /\ refund_id.some
                  THEN Some([id |-> refund_id.val, location |-> location.val])
                  ELSE None
    IN  CreatedRefundFromValue(CreatedRefundToValue(refund))

----------------------------------------------------------------------------
(* get_payment and get_refund: the body of a successful response decoded.  *)

\* the variants of Status
Status == {"CREATED", "PAID", "ERROR", "VALIDATED", "INITIATED"}

\* a faulty variant: a field that is missing or of another type takes a
\* default value
parse_body_defaulted(body) ==
    LET parsed == ParseJson(body)
    IN  IF ~parsed.ok THEN ErrV(Json(parsed.err))
        ELSE IF parsed.val.t # "object" THEN ErrV(Json("invalid type"))
        ELSE LET f == parsed.val.fields
                 text(key) == IF key \in DOMAIN f /\ f[key].t = "string"
                              THEN f[key].v ELSE ""
             IN  OkV([id |-> text("id"),
                      amount |-> IF "amount" \in DOMAIN f
                                    /\ f["amount"].t = "number"
                                 THEN f["amount"].v ELSE 0,
                      date_created |-> text("dateCreated"),
                      currency |-> "SEK",
                      status |-> None])

\* serde_json::from_str::<Payment> and ::<Refund>: id, amount, dateCreated
\* and currency are required, every other field is optional; of those the
\* model keeps status, absent, null or a variant of Status.
parse_body(body) ==
    LET parsed == ParseJson(body)
    IN  IF ~parsed.ok THEN ErrV(Json(parsed.err))
        ELSE IF parsed.val.t # "object" THEN ErrV(Json("invalid type"))
        ELSE LET f == parsed.val.fields
                 status == OptStringField(f, "status")
             IN  IF ~({"id", "amount", "dateCreated", "currency"}
                          \subseteq DOMAIN f)
                 THEN ErrV(Json("missing field"))
                 ELSE IF f["id"].t # "string" \/ f["amount"].t # "number"
                         \/ f["dateCreated"].t # "string"
                         \/ f["currency"].t # "string"
                         \/ f["currency"].v # "SEK"
                         \/ ~status.ok
                 THEN ErrV(Json("invalid type"))
                 ELSE IF status.val.some /\ status.val.val \notin Status
                 THEN ErrV(Json("unknown variant"))
                 ELSE OkV([id |-> f["id"].v, amount |-> f["amount"].v,
                           date_created |-> f["dateCreated"].v,
                           currency |-> "SEK", status |-> status.val])

----------------------------------------------------------------------------
(* Requests: PaymentParams, RefundParams and their JSON.                   *)

EmptyObject == [k \in {} |-> JNull]

\* f64: a finite number, or one of NaN and the infinities
Finite(n) == [finite |-> TRUE, n |-> n]
NaN == [finite |-> FALSE, n |-> 0]

\* serde_json's serialize_f64: a number that is not finite is written null
SerializeF64(x) == IF x.finite THEN JNum(x.n) ELSE JNull

\* a faulty variant: an unset field is emitted as a key with null
OptionalKey_null(key, opt) ==
    IF opt.some THEN key :> JStr(opt.val) ELSE key :> JNull

\* a field under skip_serializing_if = "Option::is_none"
OptionalKey(key, opt) ==
    IF opt.some THEN key :> JStr(opt.val) ELSE EmptyObject

\* Serialize for PaymentParams (rename_all = "camelCase")
SerializePaymentParams(p) ==
    JObj(OptionalKey("payeePaymentReference", p.payee_payment_reference)
         @@ OptionalKey("payerAlias", p.payer_alias)
         @@ ("payeeAlias" :> JStr(p.payee_alias))
         @@ ("amount" :> SerializeF64(p.amount))
         @@ ("currency" :> JStr(p.currency))
         @@ OptionalKey("message", p.message)
         @@ ("callbackUrl" :> JStr(p.callback_url)))

\* Serialize for RefundParams (rename_all = "camelCase")
SerializeRefundParams(p) ==
    JObj(OptionalKey("payerPaymentReference", p.payer_payment_reference)
         @@ ("originalPaymentReference" :> JStr(p.original_payment_reference))
         @@ OptionalKey("paymentReference", p.payment_reference)
         @@ ("payerAlias" :> JStr(p.payer_alias))
         @@ ("payeeAlias" :> JStr(p.payee_alias))
         @@ ("amount" :> SerializeF64(p.amount))
         @@ ("currency" :> JStr(p.currency))
         @@ OptionalKey("message", p.message)
         @@ ("callbackUrl" :> JStr(p.callback_url)))

\* a chunk of text http::Uri refuses (it holds a space)
InvalidUriChunks == {"1 1"}

\* format!("{}{}", self.swish_api_url, path).parse::<Uri>()
get_uri(api_url, path) ==
    IF \E i \in 1..Len(path) : path[i] \in InvalidUriChunks
    THEN ErrV(Uri("invalid uri character"))
    ELSE OkV(<<api_url>> \o path)

----------------------------------------------------------------------------
(* Certificates and the transport (read_cert, build_client).               *)

DerFile == <<"DER certificate">>
Pkcs12File(passphrase) == <<"PKCS#12 bundle", passphrase>>
GarbageFile == <<"garbage">>

\* read_cert: the file's bytes, or no bytes when it cannot be opened or read
read_cert(cert_path) ==
    IF fs[cert_path].some THEN OkV(fs[cert_path].val) ELSE OkV(<<>>)

\* native_tls::Certificate::from_der
from_der(bytes) ==
    IF bytes = DerFile THEN OkV([der |-> bytes]) ELSE ErrV("not a DER certificate")

\* native_tls::Identity::from_pkcs12
from_pkcs12(bytes, passphrase) ==
    IF bytes = Pkcs12File(passphrase) THEN OkV([pkcs12 |-> bytes])
    ELSE ErrV("not a PKCS#12 bundle for this passphrase")

\* build_client: the transport and the events on the way to it. The root
\* certificate is read and parsed and then left out of the connector.
build_client ==
    LET root_cert == from_der(read_cert(config.root_cert_path).val)
        client_cert == from_pkcs12(read_cert(config.cert_path).val,
                                   config.passphrase)
    IN  IF ~root_cert.ok
        THEN [result |-> ErrV(root_cert.err), log |-> <<"read root_cert">>]
        ELSE IF ~client_cert.ok
        THEN [result |-> ErrV(client_cert.err),
              log |-> <<"read root_cert", "read cert">>]
        ELSE [result |-> OkV([identity |-> client_cert.val,
                              root_certificates |-> <<>>,
                              enforce_http |-> FALSE]),
              log |-> <<"read root_cert", "read cert", "build_client">>]

----------------------------------------------------------------------------
(* The inputs: what a caller may pass and what the provider may answer.    *)

OptionOf(S) == {None} \cup {Some(x) : x \in S}

Merchants == {"1231181189", "1234679304"}
Aliases == Merchants \cup {""}

Amounts == {Finite(100), NaN}

PaymentParamsSet ==
    [payee_payment_reference : OptionOf({"0123456789"}),
     payer_alias : OptionOf({"46712345678"}),
     payee_alias : Aliases,
     amount : Amounts,
     currency : {"SEK"},
     message : OptionOf({"Kingston USB Flash Drive 8 GB"}),
     callback_url : {"https://example.com/api/swishcb/paymentrequests"}]

RefundParamsSet ==
    [payer_payment_reference : OptionOf({"0123456789"}),
     original_payment_reference : {"6D6CD7406ECE4542A80152D909EF9F6B"},
     payment_reference : OptionOf({"ref"}),
     payer_alias : Aliases,
     payee_alias : Aliases,
     amount : Amounts,
     currency : {"SEK"},
     message : OptionOf({"Refund"}),
     callback_url : {"https://example.com/api/swishcb/refunds"}]

ResourceIds == {"111", "1 1"}

Statuses == {200, 201, 302, 404, 422, 500}

RECURSIVE Joined(_)
\* the elements of an array with a comma between each two
Joined(es) ==
    IF Len(es) <= 1 THEN es ELSE <<Head(es), ",">> \o Joined(Tail(es))

ArrayText(es) == <<"[">> \o Joined(es) \o <<"]">>

ArrayTexts == {ArrayText(es) : es \in SeqUpTo(ErrorTokens, MaxElems)}

Bodies ==
    ArrayTexts
    \cup {SubSeq(t, 1, Len(t) - 1) : t \in ArrayTexts}
    \cup {<<tok>> : tok \in ValueTokens}
    \cup {<<>>, <<"not found">>, <<BinaryChunk>>, <<TokFull, "trailing">>,
          <<"[", TokFull, ",", "]">>}

HeaderMapOf(location, token) ==
    [name \in (IF location.some THEN {LOCATION} ELSE {})
               \cup (IF token.some THEN {PAYMENT_REQUEST_TOKEN} ELSE {})
        |-> IF name = LOCATION THEN location.val ELSE token.val]

AllHeaders ==
    {HeaderMapOf(l, t) : l \in OptionOf(SeqUpTo(LocBytes, MaxLocLen)),
                         t \in OptionOf(SeqUpTo(TokBytes, MaxTokLen))}

ProbeHeaders ==
    {HeaderMapOf(None, None), HeaderMapOf(Some(<<97, Slash, 97>>), Some(<<116>>))}

ProbeBodies == {<<>>, ArrayText(<<TokFull>>)}

\* Every body with a few header sets, and every header set with a few
\* bodies: the classification of an error never reads the headers and the
\* continuation of a creation never reads the body.
Responses ==
    [status : Statuses, headers : ProbeHeaders, body : Bodies]
    \cup [status : Statuses, headers : AllHeaders, body : ProbeBodies]

\* Inputs of a run with several calls: a few of each kind, so that every
\* interleaving of the calls' steps is explored.
FewPaymentParams ==
    {p \in PaymentParamsSet :
        /\ p.payee_alias = "1234679304" /\ p.amount = Finite(100)
        /\ p.payee_payment_reference = None /\ p.payer_alias = None}

FewRefundParams ==
    {p \in RefundParamsSet :
        /\ p.payer_alias = "" /\ p.payee_alias = "1234679304"
        /\ p.amount = Finite(100) /\ p.payer_payment_reference = None
        /\ p.payment_reference = None}

FewResponses ==
    {[status |-> 201, body |-> <<TokPayment>>,
      headers |-> HeaderMapOf(Some(<<97, Slash, 97>>), Some(<<116>>))],
     [status |-> 200, body |-> <<>>, headers |-> HeaderMapOf(None, None)],
     [status |-> 422, body |-> ArrayText(<<TokFull>>),
      headers |-> HeaderMapOf(None, None)],
     [status |-> 404, body |-> <<"not found">>,
      headers |-> HeaderMapOf(None, None)]}

\* several calls share the client
Concurrent == DOMAIN calls # CallIds

PaymentParamsOffered ==
    IF Concurrent THEN FewPaymentParams ELSE PaymentParamsSet
RefundParamsOffered ==
    IF Concurrent THEN FewRefundParams ELSE RefundParamsSet
ResponsesOffered == IF Concurrent THEN FewResponses ELSE Responses

----------------------------------------------------------------------------
(* The state machine.                                                      *)

IdleCall ==
    [phase |-> "idle", op |-> "none", args |-> Nil, client |-> Nil,
     response |-> Nil, classified |-> Nil, result |-> Nil, log |-> <<>>]

CertPath == "tests/test_cert.p12"
RootCertPath == "tests/root_cert.der"

\* SwishClient::new, over a file system that may or may not hold the
\* certificates and a passphrase that may or may not open the bundle, with
\* the calls ids still to be made
InitWith(ids) ==
    /\ \E merchant \in Merchants, passphrase \in {"swish", "wrong"} :
         config = [merchant_swish_number |-> merchant,
                   swish_api_url |->
                       "https://mss.cpc.getswish.net/swish-cpcapi/api/v1/",
                   passphrase |-> passphrase,
                   cert_path |-> CertPath,
                   root_cert_path |-> RootCertPath]
    /\ \E root \in {Some(DerFile), Some(GarbageFile), None},
          cert \in {Some(Pkcs12File("swish")), Some(GarbageFile), None} :
         fs = (RootCertPath :> root) @@ (CertPath :> cert)
    /\ calls = [c \in ids |-> IdleCall]
    /\ wire = [c \in ids |-> Nil]

Init == InitWith(CallIds)

\* two calls on the same client
InitConcurrent == InitWith(Callers)

\* Request::post / Request::get with its body
PostRequest(uri, json_params) ==
    [method |-> "POST", uri |-> uri, content_type |-> Some("application/json"),
     body |-> Some(json_params)]
GetRequest(uri) ==
    [method |-> "GET", uri |-> uri, content_type |-> None, body |-> None]

\* a faulty variant: the transport an earlier call built is kept and used
\* again, and the certificates are not read a second time
ClientOfCall_cached ==
    IF \E d \in DOMAIN calls : calls[d].client # Nil
    THEN [result |->
              OkV(calls[CHOOSE d \in DOMAIN calls :
                            calls[d].client # Nil].client),
          log |-> <<>>]
    ELSE build_client

\* let client = self.build_client(): a transport built for this call
ClientOfCall == build_client

\* a faulty variant: one connection for all calls, the newest request
\* replaces whatever is in flight
InFlight_shared(w, c, request) == [d \in DOMAIN w |-> request]

\* client.request(request): the request is in flight on the call's client
InFlight(w, c, request) == [w EXCEPT ![c] = request]

\* perform_swish_api_request up to client.request(request): the transport
\* is built (or the call panics) and the request is handed to it
Performed(c, op, args, request) ==
    LET built == ClientOfCall
    IN  IF built.result.ok
        THEN /\ calls' = [calls EXCEPT ![c] =
                            [@ EXCEPT !.phase = "sent", !.op = op,
                                      !.args = args,
                                      !.client = built.result.val,
                                      !.log = @ \o built.log \o <<"request">>]]
             /\ wire' = InFlight(wire, c, request)
        ELSE /\ calls' = [calls EXCEPT ![c] =
                            [@ EXCEPT !.phase = "panicked", !.op = op,
                                      !.args = args,
                                      !.log = @ \o built.log]]
             /\ wire' = wire

\* post: the URI, the JSON body, then perform_swish_api_request
Posted(c, op, args, path, json_params) ==
    LET uri == get_uri(config.swish_api_url, path)
    IN  IF uri.ok
        THEN Performed(c, op, args, PostRequest(uri.val, json_params))
        ELSE /\ calls' = [calls EXCEPT ![c] =
                            [@ EXCEPT !.phase = "done", !.op = op,
                                      !.args = args,
                                      !.classified = ErrV(uri.err),
                                      !.result = ErrV(uri.err)]]
             /\ wire' = wire

\* get: the URI unwrapped, then perform_swish_api_request
Got(c, op, args, path) ==
    LET uri == get_uri(config.swish_api_url, path)
    IN  IF uri.ok
        THEN Performed(c, op, args, GetRequest(uri.val))
        ELSE /\ calls' = [calls EXCEPT ![c] =
                            [@ EXCEPT !.phase = "panicked", !.op = op,
                                      !.args = args]]
             /\ wire' = wire

\* a faulty variant: the caller's payee_alias is sent as given
PaymentParamsToSend_asgiven(params) == params

PaymentParamsToSend(params) ==
    [params EXCEPT !.payee_alias = config.merchant_swish_number]

\* a faulty variant: the caller's payer_alias is sent as given
RefundParamsToSend_asgiven(params) == params

\* a faulty variant: both aliases of a refund become the merchant number
RefundParamsToSend_both(params) ==
    [params EXCEPT !.payer_alias = config.merchant_swish_number,
                   !.payee_alias = config.merchant_swish_number]

RefundParamsToSend(params) ==
    [params EXCEPT !.payer_alias = config.merchant_swish_number]

create_payment(c) ==
    /\ calls[c].phase = "idle"
    /\ \E params \in PaymentParamsOffered :
         Posted(c, "create_payment", params, <<"paymentrequests">>,
                SerializePaymentParams(PaymentParamsToSend(params)))
    /\ UNCHANGED <<config, fs>>

create_refund(c) ==
    /\ calls[c].phase = "idle"
    /\ \E params \in RefundParamsOffered :
         Posted(c, "create_refund", params, <<"refunds">>,
                SerializeRefundParams(RefundParamsToSend(params)))
    /\ UNCHANGED <<config, fs>>

get_payment(c) ==
    /\ calls[c].phase = "idle"
    /\ \E payment_id \in ResourceIds :
         Got(c, "get_payment", [id |-> payment_id],
             <<"paymentrequests/", payment_id>>)
    /\ UNCHANGED <<config, fs>>

get_refund(c) ==
    /\ calls[c].phase = "idle"
    /\ \E refund_id \in ResourceIds :
         Got(c, "get_refund", [id |-> refund_id], <<"refunds/", refund_id>>)
    /\ UNCHANGED <<config, fs>>

\* the request in flight reaches the provider
Deliver(c) ==
    /\ calls[c].phase = "sent"
    /\ wire[c] # Nil
    /\ calls' = [calls EXCEPT ![c] = [@ EXCEPT !.phase = "awaiting",
                                               !.args = Nil]]
    /\ wire' = [wire EXCEPT ![c] = Nil]
    /\ UNCHANGED <<config, fs>>

\* the provider answers the request it received
Respond(c) ==
    /\ calls[c].phase = "awaiting"
    /\ \E response \in ResponsesOffered :
         calls' = [calls EXCEPT ![c] =
                      [@ EXCEPT !.phase = "responded", !.response = response]]
    /\ UNCHANGED <<config, fs, wire>>

\* a faulty variant: a failed exchange is sent once more
Failed_retry(call, err) ==
    [call EXCEPT !.phase = "sent", !.args = Nil,
                 !.log = @ \o <<"request">>]

\* .map_err(SwishClientError::from): the failure of the exchange ends the
\* call and is its result
Failed(call, err) ==
    [call EXCEPT !.phase = "done", !.args = Nil,
                 !.classified = ErrV(err), !.result = ErrV(err)]

\* the exchange fails in the transport (connect, TLS, read of the body)
TransportFailure(c) ==
    /\ calls[c].phase \in {"sent", "awaiting"}
    /\ calls' = [calls EXCEPT ![c] = Failed(@, Http("transport failure"))]
    /\ wire' = [wire EXCEPT ![c] = Nil]
    /\ UNCHANGED <<config, fs>>

\* the continuation of each operation over the classified exchange
Continued(op, classified) ==
    IF ~classified.ok THEN classified
    ELSE CASE op = "create_payment" -> CreatedPaymentOf(classified.val.headers)
           [] op = "create_refund" -> CreatedRefundOf(classified.val.headers)
           [] OTHER -> parse_body(classified.val.body)

\* the response is read whole, classified and handed to the continuation;
\* str::from_utf8(&body).unwrap() panics on a body that is not UTF-8
Complete(c) ==
    /\ calls[c].phase = "responded"
    /\ LET r == calls[c].response
           classified == Classify(r.status, r.headers, r.body)
       IN  calls' = [calls EXCEPT ![c] =
                IF IsUtf8(r.body)
                THEN [@ EXCEPT !.phase = "done", !.classified = classified,
                               !.result =
                                   Continued(calls[c].op, classified)]
                ELSE [@ EXCEPT !.phase = "panicked"]]
    /\ UNCHANGED <<config, fs, wire>>

\* a step of call c
Step(c) ==
    \/ create_payment(c)
    \/ create_refund(c)
    \/ get_payment(c)
    \/ get_refund(c)
    \/ Deliver(c)
    \/ Respond(c)
    \/ TransportFailure(c)
    \/ Complete(c)

Next == \E c \in CallIds : Step(c)

NextConcurrent == \E c \in Callers : Step(c)

Spec == Init /\ [][Next]_vars

\* two calls on the same client, their steps interleaved in every order
SpecConcurrent == InitConcurrent /\ [][NextConcurrent]_vars

----------------------------------------------------------------------------
(* The claims.                                                             *)

\* call c has read and classified a response
Exchanged(c) == calls[c].phase = "done" /\ calls[c].response # Nil

\* a non-2xx, non-404 status
IsOtherError(status) == status \notin 200..299 /\ status # 404

\* C1: a non-2xx, non-404 response whose body is a JSON array yields the
\* ErrorCollection of exactly the elements that decode as a RequestError,
\* in order, one entry each, every entry stamped with the response's
\* status; an element that does not decode is left out and changes nothing
\* else.
C1_ArrayBodyYieldsDecodableErrors ==
    \A c \in CallIds :
        LET r == calls[c].response
            parsed == ParseJson(r.body)
            good == SelectSeq(parsed.val.items,
                              LAMBDA j : DecodeRequestError(j).ok)
            got == calls[c].classified
        IN  (Exchanged(c) /\ IsOtherError(r.status) /\ parsed.ok
                 /\ parsed.val.t = "array")
            => /\ ~got.ok
               /\ got.err.variant = "ErrorCollection"
               /\ Len(got.err.errors) = Len(good)
               /\ \A i \in 1..Len(good) :
                    LET e == got.err.errors[i]
                        d == DecodeRequestError(good[i]).val
                    IN  /\ e.variant = "Swish"
                        /\ e.error.http_status = r.status
                        /\ e.error.code = d.code
                        /\ e.error.message = d.message
                        /\ e.error.additional_information
                               = d.additional_information
               /\ calls[c].result = got

\* C1's case: 422 with one decodable and one malformed element
C1_Witness ==
    \E c \in CallIds :
        /\ Exchanged(c)
        /\ calls[c].response.status = 422
        /\ calls[c].response.body = ArrayText(<<TokFull, TokBogus>>)
        /\ calls[c].classified
             = ErrV(ErrorCollection(
                   <<Swish(RequestError(422, Some("RP01"), <<"x">>, Some("i")))>>))

\* C2: a non-2xx, non-404 response whose body is one JSON object of
\* RequestError shape yields a single RequestError with that object's code,
\* message and additional information, stamped with the response's status.
C2_SingleObjectYieldsSingleError ==
    \A c \in CallIds :
        LET r == calls[c].response
            parsed == ParseJson(r.body)
            d == DecodeRequestError(parsed.val)
        IN  (Exchanged(c) /\ IsOtherError(r.status) /\ parsed.ok
                 /\ parsed.val.t = "object" /\ d.ok)
            => calls[c].classified
                 = ErrV(Swish(RequestError(r.status, d.val.code, d.val.message,
                                           d.val.additional_information)))

C6_MerchantNumberIsSent ==
    \A c \in CallIds :
        wire[c] # Nil
        => /\ calls[c].op = "create_payment"
                => wire[c].body.val.fields["payeeAlias"]
                       = JStr(config.merchant_swish_number)
           /\ calls[c].op = "create_refund"
                => wire[c].body.val.fields["payerAlias"]
                       = JStr(config.merchant_swish_number)

\* C6's case: a payment request in flight whose caller passed another alias
C6_Witness ==
    \E c \in CallIds :
        /\ wire[c] # Nil
        /\ calls[c].op = "create_payment"
        /\ calls[c].args.payee_alias = "1234679304"
        /\ wire[c].body.val.fields["payeeAlias"] = JStr("1231181189")

\* call c is a creation whose response was classified a success
CreationSucceeded(c) ==
    /\ Exchanged(c)
    /\ calls[c].op \in {"create_payment", "create_refund"}
    /\ calls[c].response.status \in 200..299

\* the bytes after the last '/' of a header value, all of it without one
LastSegment(value) ==
    LET slashes == {i \in 1..Len(value) : value[i] = 47}
    IN  IF slashes = {} THEN value
        ELSE SubSeq(value, (CHOOSE i \in slashes : \A j \in slashes : j <= i) + 1,
                    Len(value))

\* a header value that reads as a string: visible ASCII or tabs only
Readable(value) ==
    \A i \in 1..Len(value) : value[i] \in 32..126 \/ value[i] = 9

\* C7: a creation answered 2xx without a location header fails with
\* SwishClientError::Parse("could not find resource location").
C7_MissingLocationIsParseError ==
    \A c \in CallIds :
        (CreationSucceeded(c) /\ LOCATION \notin DOMAIN calls[c].response.headers)
        => calls[c].result = ErrV(Parse("could not find resource location"))

C9_ReceiptIsNeverEmpty ==
    \A c \in CallIds :
        (CreationSucceeded(c) /\ calls[c].result.ok)
        => /\ calls[c].result.val.id # <<>>
           /\ calls[c].result.val.location # <<>>

SetKeys(pairs) ==
    {pairs[i][1] : i \in {j \in 1..Len(pairs) : pairs[j][2].some}}

\* the object f has exactly the key "amount", the keys of the required text
\* fields and the keys of the optional fields that hold a value, and every
\* text field it carries has the field's value
ShapeHolds(f, required, optional) ==
    /\ DOMAIN f = {"amount"}
                  \cup {required[i][1] : i \in 1..Len(required)}
                  \cup SetKeys(optional)
    /\ \A i \in 1..Len(required) : f[required[i][1]] = JStr(required[i][2])
    /\ \A i \in 1..Len(optional) :
         optional[i][2].some => f[optional[i][1]] = JStr(optional[i][2].val)

\* the PaymentParams create_payment serializes for the caller's params p
SentPayment(p) == [p EXCEPT !.payee_alias = config.merchant_swish_number]
\* the RefundParams create_refund serializes for the caller's params p
SentRefund(p) == [p EXCEPT !.payer_alias = config.merchant_swish_number]

PaymentShape(f, p) ==
    ShapeHolds(f,
               <<<<"payeeAlias", p.payee_alias>>, <<"currency", p.currency>>,
                 <<"callbackUrl", p.callback_url>>>>,
               <<<<"payeePaymentReference", p.payee_payment_reference>>,
                 <<"payerAlias", p.payer_alias>>, <<"message", p.message>>>>)

RefundShape(f, p) ==
    ShapeHolds(f,
               <<<<"originalPaymentReference", p.original_payment_reference>>,
                 <<"payerAlias", p.payer_alias>>,
                 <<"payeeAlias", p.payee_alias>>, <<"currency", p.currency>>,
                 <<"callbackUrl", p.callback_url>>>>,
               <<<<"payerPaymentReference", p.payer_payment_reference>>,
                 <<"paymentReference", p.payment_reference>>,
                 <<"message", p.message>>>>)

\* call c has a creation request in flight
CreationInFlight(c) ==
    wire[c] # Nil /\ calls[c].op \in {"create_payment", "create_refund"}

\* the params serialized into the request of call c
SentParams(c) ==
    IF calls[c].op = "create_payment" THEN SentPayment(calls[c].args)
    ELSE SentRefund(calls[c].args)

\* C11 as claimed: the JSON object of a creation request has exactly the
\* keys of the required fields and of the optional fields that hold a
\* value, an unset optional field is no key at all, and every key's value
\* equals the field's value, the amount included.
C11_KeysAndValuesMatchFields ==
    \A c \in CallIds :
        CreationInFlight(c)
        => LET f == wire[c].body.val.fields
               p == SentParams(c)
           IN  /\ IF calls[c].op = "create_payment"
                  THEN PaymentShape(f, p) ELSE RefundShape(f, p)
               /\ p.amount.finite
               /\ f["amount"] = JNum(p.amount.n)

\* C11 amended: the JSON object of a creation request has exactly the keys
\* of the required fields and of the optional fields that hold a value, an
\* unset optional field is no key at all, every text field's value equals
\* the field's value, and the amount is the field's number when that is
\* finite and null when it is NaN or infinite.
C11_KeysMatchAndFiniteAmountMatches ==
    \A c \in CallIds :
        CreationInFlight(c)
        => LET f == wire[c].body.val.fields
               p == SentParams(c)
           IN  /\ IF calls[c].op = "create_payment"
                  THEN PaymentShape(f, p) ELSE RefundShape(f, p)
               /\ f["amount"] = IF p.amount.finite THEN JNum(p.amount.n)
                                ELSE JNull

\* C11's case: a payment request whose params set payer_alias and leave
\* message unset
C11_Witness ==
    \E c \in CallIds :
        /\ CreationInFlight(c)
        /\ calls[c].op = "create_payment"
        /\ calls[c].args.payer_alias = Some("46712345678")
        /\ calls[c].args.message = None
        /\ calls[c].args.amount = Finite(100)
        /\ "message" \notin DOMAIN wire[c].body.val.fields
        /\ wire[c].body.val.fields["payerAlias"] = JStr("46712345678")
        /\ wire[c].body.val.fields["amount"] = JNum(100)

\* the number of requests call c has handed to its transport
RequestsSent(c) ==
    Len(SelectSeq(calls[c].log, LAMBDA e : e = "request"))

\* C12: a call hands at most one request to the transport, whatever its
\* outcome; a call that ended has handed over exactly one request unless
\* its URI was refused, and its result is the first failure met: the
\* transport's failure, else the classified error of the response, else
\* the decode error of the continuation.
C12_AtMostOneRequestAndFirstFailure ==
    \A c \in CallIds :
        /\ RequestsSent(c) <= 1
        /\ calls[c].phase \in {"sent", "awaiting", "responded"}
             => RequestsSent(c) = 1
        /\ calls[c].phase = "done"
             => /\ ~calls[c].classified.ok
                     => calls[c].result = calls[c].classified
                /\ calls[c].classified.ok /\ ~calls[c].result.ok
                     => calls[c].result.err.variant = "Json"
                /\ calls[c].result.ok => calls[c].classified.ok
                /\ RequestsSent(c)
                     = IF calls[c].result
                            = ErrV(Uri("invalid uri character"))
                       THEN 0 ELSE 1

\* C12's case: a call whose one request failed in the transport and whose
\* result is that failure
C12_Witness ==
    \E c \in CallIds :
        /\ calls[c].phase = "done"
        /\ calls[c].response = Nil
        /\ calls[c].result = ErrV(Http("transport failure"))
        /\ RequestsSent(c) = 1

\* the root certificate file is no DER certificate, or the client
\* certificate file is no PKCS#12 bundle under the configured passphrase (a
\* file that cannot be read counts as empty)
CertsBad ==
    \/ fs[config.root_cert_path] # Some(DerFile)
    \/ fs[config.cert_path] # Some(Pkcs12File(config.passphrase))

\* C13: with certificate material that does not parse, a call ends with an
\* error result returned to the caller and hands no request to a transport.
C13_BadCertsAreErrorResults ==
    \A c \in CallIds :
        (CertsBad /\ calls[c].phase # "idle")
        => /\ calls[c].phase = "done"
           /\ calls[c].result # Nil
           /\ ~calls[c].result.ok
           /\ RequestsSent(c) = 0

\* the request an operation sends when it runs alone: a function of the
\* operation, its arguments and the client's configuration
RequestAlone(op, args) ==
    CASE op = "create_payment" ->
           PostRequest(<<config.swish_api_url, "paymentrequests">>,
                       SerializePaymentParams(SentPayment(args)))
      [] op = "create_refund" ->
           PostRequest(<<config.swish_api_url, "refunds">>,
                       SerializeRefundParams(SentRefund(args)))
      [] op = "get_payment" ->
           GetRequest(<<config.swish_api_url, "paymentrequests/", args.id>>)
      [] op = "get_refund" ->
           GetRequest(<<config.swish_api_url, "refunds/", args.id>>)

\* the result an operation has when it runs alone and is answered response
ResultAlone(op, response) ==
    Continued(op, Classify(response.status, response.headers, response.body))

\* every call's request and result are those of the call run alone
EachCallAsAlone ==
    \A c \in DOMAIN calls :
        /\ wire[c] # Nil <=> calls[c].phase = "sent"
        /\ wire[c] # Nil => wire[c] = RequestAlone(calls[c].op, calls[c].args)
        /\ Exchanged(c)
             => calls[c].result = ResultAlone(calls[c].op, calls[c].response)
        /\ calls[c].phase = "idle" => calls[c] = IdleCall

\* a step is a step of one call: it leaves the configuration, the files and
\* every other call as they are
StepOfOneCall ==
    /\ config' = config
    /\ fs' = fs
    /\ \E c \in DOMAIN calls :
         \A d \in DOMAIN calls \ {c} :
             calls'[d] = calls[d] /\ wire'[d] = wire[d]

\* C14: with two calls in flight on one client and their steps interleaved
\* in every order, the request and the result of each call are those it has
\* when it runs alone, a function of its own arguments, its own response
\* and the configuration, and no step changes the configuration or another
\* call.
C14_CallsDoNotInterfere ==
    []EachCallAsAlone /\ [][StepOfOneCall]_vars

\* C14's case: one call has ended with a receipt while the other, begun
\* before, still awaits its response
C14_Witness ==
    /\ calls["c1"].phase = "awaiting"
    /\ calls["c1"].op = "get_payment"
    /\ Exchanged("c2")
    /\ calls["c2"].op = "create_payment"
    /\ calls["c2"].result.ok

\* C15: the transport of every call carries the client identity of the
\* PKCS#12 bundle and the configured root certificate as a trust anchor.
C15_TransportHasIdentityAndPinnedRoot ==
    \A c \in CallIds :
        calls[c].client # Nil
        => /\ calls[c].client.identity
                = [pkcs12 |-> fs[config.cert_path].val]
           /\ calls[c].client.root_certificates
                = <<[der |-> fs[config.root_cert_path].val]>>

\* call c is a get_payment or get_refund whose id holds a space, so that
\* the base URL followed by its path is no valid URI
GetWithInvalidUri(c) ==
    /\ calls[c].op \in {"get_payment", "get_refund"}
    /\ calls[c].args # Nil
    /\ calls[c].args.id = "1 1"

\* C16: an operation whose URI does not parse ends with a URI error as its
\* result, builds no transport and sends no request.
C16_InvalidUriIsErrorResult ==
    \A c \in CallIds :
        GetWithInvalidUri(c)
        => /\ calls[c].phase = "done"
           /\ calls[c].result # Nil
           /\ ~calls[c].result.ok
           /\ calls[c].result.err.variant = "Uri"
           /\ calls[c].client = Nil
           /\ RequestsSent(c) = 0

\* C17: a non-2xx, non-404 response whose body is a JSON array none of
\* whose elements decodes as a RequestError (the empty array included)
\* yields the ErrorCollection with an empty list: an error, not a success
\* and not a single error.
C17_EmptyCollectionIsStillAnError ==
    \A c \in CallIds :
        LET r == calls[c].response
            parsed == ParseJson(r.body)
        IN  (Exchanged(c) /\ IsOtherError(r.status) /\ parsed.ok
                 /\ parsed.val.t = "array"
                 /\ \A i \in 1..Len(parsed.val.items) :
                      ~DecodeRequestError(parsed.val.items[i]).ok)
            => /\ ~calls[c].result.ok
               /\ calls[c].result.err.variant = "ErrorCollection"
               /\ calls[c].result.err.errors = <<>>
               /\ calls[c].classified = calls[c].result

\* C17's case: a 500 whose body is an array of two malformed elements
C17_Witness ==
    \E c \in CallIds :
        /\ Exchanged(c)
        /\ calls[c].response.status = 500
        /\ calls[c].response.body = ArrayText(<<TokBogus, TokNumber>>)
        /\ calls[c].result
             = ErrV([variant |-> "ErrorCollection", errors |-> <<>>])

\* how often event e stands in the log of call c
Count(c, e) == Len(SelectSeq(calls[c].log, LAMBDA x : x = e))

RECURSIVE Total(_, _)
\* how often event e stands in the logs of the calls ids
Total(ids, e) ==
    IF ids = {} THEN 0
    ELSE LET c == CHOOSE x \in ids : TRUE
         IN  Count(c, e) + Total(ids \ {c}, e)

\* C18: a call that has handed a request to a transport has, before that
\* and in this order, read the root certificate, read the client
\* certificate and built one transport of its own; a call that has not has
\* built none; so over all calls there are as many transports built as
\* calls that reached the send, and none is used by two calls.
C18_OneTransportPerCallThatSends ==
    /\ \A c \in DOMAIN calls :
         IF RequestsSent(c) >= 1
         THEN calls[c].log
                = <<"read root_cert", "read cert", "build_client", "request">>
         ELSE Count(c, "build_client") = 0
    /\ Total(DOMAIN calls, "build_client") = Total(DOMAIN calls, "request")
    /\ Total(DOMAIN calls, "request")
         = Cardinality({c \in DOMAIN calls : calls[c].client # Nil})

\* C18's case: a call that ended and a later call with its request in
\* flight, each with a transport of its own
C18_Witness ==
    /\ calls["c1"].phase = "done"
    /\ calls["c1"].response # Nil
    /\ calls["c2"].phase = "sent"
    /\ Count("c1", "build_client") = 1
    /\ Count("c2", "build_client") = 1
    /\ Total(DOMAIN calls, "request") = 2

\* the JSON value j has what a Payment or a Refund needs: an object with
\* the texts id and dateCreated, the number amount, the currency SEK and,
\* when it has a status that is not null, one of the five known
WellFormedPayment(j) ==
    /\ j.t = "object"
    /\ {"id", "amount", "dateCreated", "currency"} \subseteq DOMAIN j.fields
    /\ j.fields["id"].t = "string"
    /\ j.fields["amount"].t = "number"
    /\ j.fields["dateCreated"].t = "string"
    /\ j.fields["currency"] = JStr("SEK")
    /\ "status" \in DOMAIN j.fields
         => \/ j.fields["status"].t = "null"
            \/ /\ j.fields["status"].t = "string"
               /\ j.fields["status"].v
                    \in {"CREATED", "PAID", "ERROR", "VALIDATED", "INITIATED"}

AsSupplied(f, key, opt) ==
    IF opt.some THEN key \in DOMAIN f /\ f[key] = JStr(opt.val)
    ELSE key \notin DOMAIN f

\* the emitted amount of the caller's amount x
AmountAsSupplied(f, x) ==
    f["amount"] = IF x.finite THEN JNum(x.n) ELSE JNull

\* C20: the request of create_payment carries every field of the caller's
\* PaymentParams but payee_alias as the caller set it, and the request of
\* create_refund carries every field of the caller's RefundParams but
\* payer_alias as the caller set it, the refund's payee_alias included.
C20_OverwriteChangesOneField ==
    \A c \in CallIds :
        LET f == wire[c].body.val.fields
            a == calls[c].args
        IN  /\ (wire[c] # Nil /\ calls[c].op = "create_payment")
               => /\ AsSupplied(f, "payeePaymentReference",
                                a.payee_payment_reference)
                  /\ AsSupplied(f, "payerAlias", a.payer_alias)
                  /\ AsSupplied(f, "message", a.message)
                  /\ AmountAsSupplied(f, a.amount)
                  /\ f["currency"] = JStr(a.currency)
                  /\ f["callbackUrl"] = JStr(a.callback_url)
            /\ (wire[c] # Nil /\ calls[c].op = "create_refund")
               => /\ AsSupplied(f, "payerPaymentReference",
                                a.payer_payment_reference)
                  /\ AsSupplied(f, "paymentReference", a.payment_reference)
                  /\ AsSupplied(f, "message", a.message)
                  /\ AmountAsSupplied(f, a.amount)
                  /\ f["originalPaymentReference"]
                       = JStr(a.original_payment_reference)
                  /\ f["payeeAlias"] = JStr(a.payee_alias)
                  /\ f["currency"] = JStr(a.currency)
                  /\ f["callbackUrl"] = JStr(a.callback_url)

\* C20's case: a refund request whose caller passed a payee_alias that is
\* not the merchant number and an empty payer_alias
C20_Witness ==
    \E c \in CallIds :
        /\ wire[c] # Nil
        /\ calls[c].op = "create_refund"
        /\ config.merchant_swish_number = "1231181189"
        /\ calls[c].args.payee_alias = "1234679304"
        /\ calls[c].args.payer_alias = ""
        /\ wire[c].body.val.fields["payeeAlias"] = JStr("1234679304")
        /\ wire[c].body.val.fields["payerAlias"] = JStr("1231181189")

====
